---------------------------- MODULE Spec2Model ----------------------------
(***************************************************************************)
(* Model of the CodeWars practice-exercise manager: the catalog client     *)
(* (src/src/api_client.py), the three MCP tools and the exercise           *)
(* materializer (src/src/main.py).  Each tool invocation is one atomic     *)
(* action (the tools are synchronous and single-process); the network and  *)
(* the filesystem are inputs drawn with \E.                                *)
(***************************************************************************)
EXTENDS Integers, Sequences, FiniteSets, TLC

(***************************************************************************)
(* Bounds                                                                  *)
(***************************************************************************)
\* number of kata ids known to the catalog (ids are 1..NumIds)
NumIds == 2
\* largest number of records on page 0 of the completed list
MaxCompleted == 1
\* largest number of characters of an exercise title given to the naming functions
MaxTitleLen == 3

KataIds == 1..NumIds
\* value of a dict key that is not present
NoKey == "<absent>"
\* an item lacking the "id" key
NoId == 0

(***************************************************************************)
(* Characters and strings (a string is a sequence of one-character strings)*)
(***************************************************************************)
AsciiLower == {"a", "b", "k", "y", "u"}
AsciiUpper == {"A", "B", "N"}
AsciiDigit == {"1", "6"}
\* alphanumeric for str.isalnum() but outside the regex class [a-zA-Z0-9]
UniLower == {"é"}
UniUpper == {"É"}

\* str.isalnum() of one character
IsAlnum(c) == c \in AsciiLower \cup AsciiUpper \cup AsciiDigit \cup UniLower \cup UniUpper
\* the regex class [a-zA-Z0-9]
IsAsciiAlnum(c) == c \in AsciiLower \cup AsciiUpper \cup AsciiDigit
\* str.isdigit() of one character
IsDigit(c) == c \in AsciiDigit
\* str.lower() of one character
LowerChar(c) ==
    CASE c = "A" -> "a"
      [] c = "B" -> "b"
      [] c = "N" -> "n"
      [] c = "É" -> "é"
      [] OTHER -> c

LowerStr(s) == [i \in 1..Len(s) |-> LowerChar(s[i])]

RECURSIVE LStrip(_)
LStrip(s) == IF s # <<>> /\ Head(s) = " " THEN LStrip(Tail(s)) ELSE s

RECURSIVE RStrip(_)
RStrip(s) == IF s # <<>> /\ s[Len(s)] = " " THEN RStrip(SubSeq(s, 1, Len(s) - 1)) ELSE s

\* str.strip()
Strip(s) == RStrip(LStrip(s))

\* str.replace(old, new) for a one-character old and a string new
RECURSIVE ReplaceChar(_, _, _)
ReplaceChar(s, old, new) ==
    IF s = <<>> THEN <<>>
    ELSE (IF Head(s) = old THEN new ELSE <<Head(s)>>) \o ReplaceChar(Tail(s), old, new)

KeepFolderChar(c) == IsAlnum(c) \/ c \in {" ", "-", "_"}

\* sanitize_folder_name without the .strip()
sanitize_folder_name_no_strip(name) ==
    LowerStr(ReplaceChar(SelectSeq(name, KeepFolderChar), " ", <<"_">>))

\* main.py sanitize_folder_name
sanitize_folder_name(name) ==
    LET cleaned_name == Strip(SelectSeq(name, KeepFolderChar))
    IN LowerStr(ReplaceChar(cleaned_name, " ", <<"_">>))

\* re.split(r'[^a-zA-Z0-9]+', name) followed by "if word": the maximal runs
\* of ASCII alphanumerics, in order
RECURSIVE SplitWords(_, _, _)
SplitWords(s, cur, acc) ==
    IF s = <<>> THEN (IF cur = <<>> THEN acc ELSE Append(acc, cur))
    ELSE IF IsAsciiAlnum(Head(s)) THEN SplitWords(Tail(s), Append(cur, Head(s)), acc)
    ELSE SplitWords(Tail(s), <<>>, IF cur = <<>> THEN acc ELSE Append(acc, cur))

\* "_".join(words)
RECURSIVE JoinUnderscore(_)
JoinUnderscore(words) ==
    IF words = <<>> THEN <<>>
    ELSE IF Len(words) = 1 THEN words[1]
    ELSE words[1] \o <<"_">> \o JoinUnderscore(Tail(words))

KataPrefix == <<"k", "a", "t", "a", "_">>

\* generate_function_name without the isdigit() test
generate_function_name_no_prefix(name) ==
    LET words == SplitWords(name, <<>>, <<>>)
    IN JoinUnderscore([i \in 1..Len(words) |-> LowerStr(words[i])])

\* main.py generate_function_name
generate_function_name(name) ==
    LET words == SplitWords(name, <<>>, <<>>)
        snake_case_name == JoinUnderscore([i \in 1..Len(words) |-> LowerStr(words[i])])
    IN IF snake_case_name # <<>> /\ IsDigit(snake_case_name[1])
       THEN KataPrefix \o snake_case_name
       ELSE snake_case_name

(***************************************************************************)
(* JSON values.  A dict is a record with the set of keys it has; a field   *)
(* whose key is not in keys holds a default and is never read.             *)
(***************************************************************************)
\* one element of the completed list: a CompletedRecord or the client's error dict
Item(id) == [keys |-> {"id"}, id |-> id, error |-> NoKey]
ErrItem(text) == [keys |-> {"error"}, id |-> NoId, error |-> text]

T1 == <<"A", "b">>
T2 == <<"a", "!", "b">>
Titles == {T1, T2}
Descriptions == {"d1", "d2"}
DetailKeys == {"name", "rank", "url", "description"}

\* a dict returned by fetch_kata_details / fetch_codewars_user
Dict(keys, name, rankNull, description) ==
    [keys |-> keys, error |-> NoKey, name |-> name,
     rank |-> <<"6", " ", "k", "y", "u">>, rankNull |-> rankNull,
     url |-> "u1", description |-> description]
ErrDict(text) == [keys |-> {"error"}, error |-> text, name |-> <<>>,
                  rank |-> <<>>, rankNull |-> FALSE, url |-> NoKey, description |-> NoKey]

\* response bodies of GET /code-challenges/{id}: complete details, details of a
\* kata whose rank name is null, and details lacking one key
DetailsSet ==
    {Dict(DetailKeys, n, FALSE, de) : n \in Titles, de \in Descriptions}
    \cup {Dict(DetailKeys, T1, TRUE, "d1")}
    \cup {Dict(DetailKeys \ {k}, T1, FALSE, "d1") : k \in DetailKeys}

\* response body of GET /users/{username}
ProfileDict == [keys |-> {"username", "honor"}, error |-> NoKey, name |-> <<>>,
                rank |-> <<>>, rankNull |-> FALSE, url |-> NoKey, description |-> NoKey]

\* page 0 of the completed list: strictly increasing sequences of kata ids
CompletedLists ==
    {s \in UNION {[1..n -> KataIds] : n \in 0..MaxCompleted} :
        \A i \in 1..(Len(s) - 1) : s[i] < s[i + 1]}
ItemsOf(ids) == [i \in 1..Len(ids) |-> Item(ids[i])]

(***************************************************************************)
(* Exceptions.  An operation returns Ret(value) or Raise(class); a handler *)
(* "except C" catches the classes for which Catches(C, raised) holds.      *)
(***************************************************************************)
Ret(v) == [exc |-> "none", val |-> v]
Raise(e) == [exc |-> e, val |-> <<>>]

\* the direct base class of an exception class
BaseOf(e) ==
    CASE e = "JSONDecodeError" -> "ValueError"
      [] e = "KeyError" -> "LookupError"
      [] e = "TimeoutException" -> "TransportError"
      [] e = "ConnectError" -> "TransportError"
      [] e = "TransportError" -> "HTTPError"
      [] e = "HTTPStatusError" -> "HTTPError"
      [] e = "PermissionError" -> "OSError"
      [] e = "FileNotFoundError" -> "OSError"
      [] OTHER -> "Exception"

RECURSIVE Catches(_, _)
Catches(cls, raised) ==
    IF raised = cls THEN TRUE
    ELSE IF raised = "Exception" THEN FALSE
    ELSE Catches(cls, BaseOf(raised))

(***************************************************************************)
(* Network outcomes of one GET: an exception raised by the transport, or a *)
(* response with a status and a body shape.                                *)
(***************************************************************************)
HttpStatuses == {200, 404, 500}
Net(exc, status, body) == [exc |-> exc, status |-> status, body |-> body]
\* 200 with the documented JSON body
NetOk == Net("none", 200, "json")
\* outcomes of the profile and details endpoints
NetOutcomes ==
    {Net(e, 0, "none") : e \in {"TimeoutException", "ConnectError", "RuntimeError"}}
    \cup {Net("none", s, "text") : s \in HttpStatuses \ {200}}
    \cup {Net("none", 200, b) : b \in {"json", "notjson"}}
\* outcomes of the completed-list endpoint: also a JSON object without "data"
\* and a JSON document that is not an object
NetOutcomesCompleted ==
    NetOutcomes \cup {Net("none", 200, b) : b \in {"nodata", "notdict"}}
\* outcomes after which the operation did not obtain its data
NetFailed(net) == net.exc # "none" \/ net.status # 200 \/ net.body \in {"notjson", "notdict"}

\* f"Error HTTP {e.response.status_code}: ..."
HttpErrorText(status) ==
    CASE status = 404 -> "Error HTTP 404"
      [] status = 500 -> "Error HTTP 500"
      [] OTHER -> "Error HTTP"

\* the statements of a client try block up to response.json(): client.get,
\* the 404 test, raise_for_status and the decoding of the body
ClientTry(net) ==
    IF net.exc # "none" THEN Raise(net.exc)
    ELSE IF net.status = 404 THEN Ret("404")
    ELSE IF net.status # 200 THEN Raise("HTTPStatusError")
    ELSE IF net.body = "notjson" THEN Raise("JSONDecodeError")
    ELSE Ret("json")

\* api_client.py fetch_codewars_user; body is the decoded JSON of a 200 response
fetch_codewars_user(username, net, body) ==
    LET Handlers(try) ==
            IF try.exc = "none"
            THEN (IF try.val = "404" THEN Ret(ErrDict("El usuario no existe en CodeWars."))
                  ELSE Ret(body))
            ELSE IF Catches("TimeoutException", try.exc)
            THEN Ret(ErrDict("Timeout al conectar con CodeWars API. Intenta nuevamente."))
            ELSE IF Catches("ConnectError", try.exc)
            THEN Ret(ErrDict("Error de conexión. Verifica tu conexión a internet."))
            ELSE IF Catches("HTTPStatusError", try.exc)
            THEN Ret(ErrDict(HttpErrorText(net.status)))
            ELSE IF Catches("Exception", try.exc)
            THEN Ret(ErrDict("Error inesperado al obtener usuario"))
            ELSE Raise(try.exc)
    IN Handlers(ClientTry(net))

\* the try block of fetch_user_completed: json_data.get("data", [])
CompletedTry(net, data) ==
    LET try == ClientTry(net)
    IN IF try.exc # "none" THEN [exc |-> try.exc, out |-> "raise", val |-> <<>>]
       ELSE IF try.val = "404" THEN [exc |-> "none", out |-> "404", val |-> <<>>]
       ELSE IF net.body = "notdict" THEN [exc |-> "AttributeError", out |-> "raise", val |-> <<>>]
       ELSE IF net.body = "nodata" THEN [exc |-> "none", out |-> "data", val |-> <<>>]
       ELSE [exc |-> "none", out |-> "data", val |-> data]

\* fetch_user_completed without the status_code == 404 test: raise_for_status
\* raises HTTPStatusError for the 404 too
fetch_user_completed_no_404(username, net, data) ==
    LET Handlers(try) ==
            IF try.exc = "none"
            THEN (IF try.out = "404" THEN Ret(<<ErrItem(HttpErrorText(net.status))>>)
                  ELSE Ret(try.val))
            ELSE IF Catches("TimeoutException", try.exc)
            THEN Ret(<<ErrItem("Timeout al obtener katas completados. Intenta nuevamente.")>>)
            ELSE IF Catches("ConnectError", try.exc)
            THEN Ret(<<ErrItem("Error de conexión. Verifica tu conexión a internet.")>>)
            ELSE IF Catches("HTTPStatusError", try.exc)
            THEN Ret(<<ErrItem(HttpErrorText(net.status))>>)
            ELSE IF Catches("KeyError", try.exc) \/ Catches("ValueError", try.exc)
            THEN Ret(<<ErrItem("Error al parsear respuesta de la API")>>)
            ELSE IF Catches("Exception", try.exc)
            THEN Ret(<<ErrItem("Error inesperado al obtener katas completados")>>)
            ELSE Raise(try.exc)
    IN Handlers(CompletedTry(net, data))

\* api_client.py fetch_user_completed; data is the "data" list of a 200 response
fetch_user_completed(username, net, data) ==
    LET Handlers(try) ==
            IF try.exc = "none"
            THEN (IF try.out = "404" THEN Ret(<<ErrItem("Usuario no encontrado.")>>)
                  ELSE Ret(try.val))
            ELSE IF Catches("TimeoutException", try.exc)
            THEN Ret(<<ErrItem("Timeout al obtener katas completados. Intenta nuevamente.")>>)
            ELSE IF Catches("ConnectError", try.exc)
            THEN Ret(<<ErrItem("Error de conexión. Verifica tu conexión a internet.")>>)
            ELSE IF Catches("HTTPStatusError", try.exc)
            THEN Ret(<<ErrItem(HttpErrorText(net.status))>>)
            ELSE IF Catches("KeyError", try.exc) \/ Catches("ValueError", try.exc)
            THEN Ret(<<ErrItem("Error al parsear respuesta de la API")>>)
            ELSE IF Catches("Exception", try.exc)
            THEN Ret(<<ErrItem("Error inesperado al obtener katas completados")>>)
            ELSE Raise(try.exc)
    IN Handlers(CompletedTry(net, data))

\* api_client.py fetch_kata_details; body is the decoded JSON of a 200 response
fetch_kata_details(kata_id_or_slug, net, body) ==
    LET Handlers(try) ==
            IF try.exc = "none"
            THEN (IF try.val = "404" THEN Ret(ErrDict("Ejercicio no encontrado."))
                  ELSE Ret(body))
            ELSE IF Catches("TimeoutException", try.exc)
            THEN Ret(ErrDict("Timeout al obtener detalles del kata. Intenta nuevamente."))
            ELSE IF Catches("ConnectError", try.exc)
            THEN Ret(ErrDict("Error de conexión. Verifica tu conexión a internet."))
            ELSE IF Catches("HTTPStatusError", try.exc)
            THEN Ret(ErrDict(HttpErrorText(net.status)))
            ELSE IF Catches("Exception", try.exc)
            THEN Ret(ErrDict("Error inesperado al obtener detalles del kata"))
            ELSE Raise(try.exc)
    IN Handlers(ClientTry(net))

(***************************************************************************)
(* State: the three JSON documents under data/, the exercise folders under *)
(* exercises/, and what the last invocation did and returned.              *)
(***************************************************************************)
VARIABLES
    config,      \* data/config.json
    index,       \* data/katas_index.json
    history,     \* data/user_history.json
    exercises,   \* exercises/<folder>: the directory and its two files
    last,        \* the last tool invocation: inputs, observations and result
    call,        \* the last direct call of a catalog client operation
    wizard       \* setup.py SetupWizard.configure_user: where it is and what it saw

vars == <<config, index, history, exercises, last, call, wizard>>

\* a JSON document on disk: absent, present but unparseable, or parsed
Absent == [st |-> "absent", items |-> <<>>]
Corrupt == [st |-> "corrupt", items |-> <<>>]
Json(items) == [st |-> "json", items |-> items]

\* data/config.json: absent, unparseable, {}, a dict without the username
\* key, and the dict written by setup.py save_user_config
ConfigDict(keys, username) == [st |-> "json", keys |-> keys, codewars_username |-> username]
ConfigStates ==
    {[st |-> "absent", keys |-> {}, codewars_username |-> ""],
     [st |-> "corrupt", keys |-> {}, codewars_username |-> ""],
     ConfigDict({}, ""), ConfigDict({"other"}, ""), ConfigDict({"codewars_username"}, "u")}

\* one entry of the index: {"id": ..., "name": ...}; the name of kata i is
\* identified with i
IndexEntry(keys, id) == [keys |-> keys, id |-> id]
\* data/katas_index.json: absent, unparseable, the first n katas of the
\* catalog, an entry without "id", an entry without "name"
IndexStates ==
    {Absent, Corrupt}
    \cup {Json([i \in 1..n |-> IndexEntry({"id", "name"}, i)]) : n \in 0..NumIds}
    \cup {Json(<<IndexEntry({"id", "name"}, 1), IndexEntry({"name"}, NoId)>>),
          Json(<<IndexEntry({"id"}, 1)>>)}

\* a file of an exercise folder
NoFile == [kind |-> "none", name |-> <<>>, rank |-> <<>>, url |-> NoKey,
           description |-> NoKey, fn |-> <<>>]
\* solution.py after the user worked on it
UserFile == [kind |-> "user", name |-> <<>>, rank |-> <<>>, url |-> NoKey,
             description |-> NoKey, fn |-> <<>>]
NoFolder == [dir |-> FALSE, readme |-> NoFile, solution |-> NoFile]

\* rank_info.get('name', 'N/A').replace(' ', '') of details whose rank name is a string
RankTag(d) ==
    IF "rank" \in d.keys THEN ReplaceChar(d.rank, " ", <<>>) ELSE <<"N", "/", "A">>
\* f"{rank_name}_python_{folder_slug}"
FolderName(rank_name, folder_slug) ==
    rank_name \o <<"_", "p", "y", "t", "h", "o", "n", "_">> \o folder_slug
\* the folders the catalog's details map to
Folders == {FolderName(RankTag(d), sanitize_folder_name(d.name)) :
                d \in {x \in DetailsSet : "name" \in x.keys}}

\* a message returned by a tool: its fixed text, the error text, exception or
\* origin it embeds, the count it embeds and the kata it names
Msg(tpl, text, n, item) == [tpl |-> tpl, text |-> text, n |-> n, item |-> item]
NoMsg == Msg("<none>", NoKey, 0, 0)
\* the messages that report a failure start with the cross mark or the warning sign
IsErrorMsg(m) == m.tpl \notin {"<none>", "Sincronización exitosa", "Has completado todos", "EJERCICIO LISTO"}

\* filesystem outcomes of mkdir / open-for-write: done, or OSError raised
\* before anything changed
FsOutcomes == {"ok", "fail"}

\* load_config without the CONFIG_PATH.exists() test
load_config_unguarded(cfg) ==
    IF cfg.st = "absent" THEN Raise("FileNotFoundError")
    ELSE IF cfg.st = "corrupt" THEN Raise("ValueError")
    ELSE Ret([isNone |-> FALSE, keys |-> cfg.keys, codewars_username |-> cfg.codewars_username])

\* main.py load_config
load_config(cfg) ==
    IF cfg.st = "absent" THEN Ret([isNone |-> TRUE, keys |-> {}, codewars_username |-> ""])
    ELSE IF cfg.st = "corrupt" THEN Raise("ValueError")
    ELSE Ret([isNone |-> FALSE, keys |-> cfg.keys, codewars_username |-> cfg.codewars_username])

\* bool(config) for the value load_config returns: None and {} are falsy
Truthy(c) == ~c.isNone /\ c.keys # {}
\* config.get("codewars_username"); "" stands for None
GetUsername(c) == IF "codewars_username" \in c.keys THEN c.codewars_username ELSE ""

\* d == s for a dict d and a str s
DictEqualsStr(d, s) == FALSE
\* `s in items` for a list: some element compares equal to s
StrInList(s, items) == \E i \in DOMAIN items : DictEqualsStr(items[i], s)
\* `s in d` for a dict: s is a key
StrInDict(s, d) == s \in d.keys

\* [kata["id"] for kata in items]
AllHaveId(items) == \A i \in DOMAIN items : "id" \in items[i].keys
IdList(items) == [i \in DOMAIN items |-> items[i].id]
SeqToSet(s) == {s[i] : i \in DOMAIN s}

\* the try block of sync_history_internal: the ids returned, the snapshot
\* it leaves on disk and the exception raised
SyncTry(username, net, data, fs, hist) ==
    LET Body(fetched) ==
            IF fetched.exc # "none" THEN [exc |-> fetched.exc, ids |-> <<>>, hist |-> hist]
            ELSE IF StrInList("error", fetched.val)
            THEN [exc |-> "none", ids |-> <<>>, hist |-> hist]
            ELSE IF fs = "fail" THEN [exc |-> "OSError", ids |-> <<>>, hist |-> hist]
            ELSE IF ~AllHaveId(fetched.val)
            THEN [exc |-> "KeyError", ids |-> <<>>, hist |-> Json(fetched.val)]
            ELSE [exc |-> "none", ids |-> IdList(fetched.val), hist |-> Json(fetched.val)]
    IN Body(fetch_user_completed(username, net, data))

\* main.py sync_history_internal
sync_history_internal(username, net, data, fs, hist) ==
    LET Handlers(try) ==
            IF try.exc = "none" THEN try
            ELSE IF Catches("OSError", try.exc) \/ Catches("KeyError", try.exc)
                    \/ Catches("TypeError", try.exc)
            THEN [exc |-> "none", ids |-> <<>>, hist |-> try.hist]
            ELSE try
    IN Handlers(SyncTry(username, net, data, fs, hist))

\* what a tool invocation leaves: the exception that escaped or the message
\* returned, the files after it, the number of HTTP requests it issued and
\* the identifiers it requested details for
Outcome(exc, msg, hist, ex) ==
    [exc |-> exc, msg |-> msg, hist |-> hist, ex |-> ex, reqs |-> 0, fetched |-> <<>>]
WithReqs(o, n) == [o EXCEPT !.reqs = n]
WithFetch(o, n, id) == [o EXCEPT !.reqs = n, !.fetched = <<id>>]

\* the try block of update_progress
UpdateTry(username, net, data, fs) ==
    LET cfg == load_config(config)
        active_username ==
            IF username # "" THEN username
            ELSE IF Truthy(cfg.val) THEN GetUsername(cfg.val) ELSE ""
        Body(fetched) ==
            IF fetched.exc # "none"
            THEN WithReqs(Outcome(fetched.exc, NoMsg, history, exercises), 1)
            ELSE IF StrInList("error", fetched.val)
            THEN WithReqs(Outcome("none",
                                  Msg("Error conectando con CodeWars", fetched.val[1].error, 0, 0),
                                  history, exercises), 1)
            ELSE IF fs = "fail" THEN WithReqs(Outcome("OSError", NoMsg, history, exercises), 1)
            ELSE WithReqs(Outcome("none",
                                  Msg("Sincronización exitosa", NoKey, Len(fetched.val), 0),
                                  Json(fetched.val), exercises), 1)
    IN IF cfg.exc # "none" THEN Outcome(cfg.exc, NoMsg, history, exercises)
       ELSE IF active_username = ""
       THEN Outcome("none", Msg("No se encontró configuración de usuario", NoKey, 0, 0),
                    history, exercises)
       ELSE Body(fetch_user_completed(active_username, net, data))

\* main.py update_progress
update_progress(username, net, data, fs) ==
    LET Handlers(try) ==
            IF try.exc = "none" THEN try
            ELSE IF Catches("OSError", try.exc)
            THEN Outcome("none", Msg("Error de archivo al guardar historial", try.exc, 0, 0),
                         try.hist, try.ex)
            ELSE IF Catches("Exception", try.exc)
            THEN Outcome("none", Msg("Error crítico al actualizar", try.exc, 0, 0),
                         try.hist, try.ex)
            ELSE try
    IN Handlers(UpdateTry(username, net, data, fs))

(***************************************************************************)
(* Exercise materializer                                                   *)
(***************************************************************************)
\* README.md: title, rank tag, URL and description
ReadmeFile(d, rank_name) ==
    [kind |-> "readme", name |-> d.name, rank |-> rank_name, url |-> d.url,
     description |-> d.description, fn |-> <<>>]
\* solution.py: header (title, rank tag, URL) and the function skeleton
StubFile(d, rank_name, function_name) ==
    [kind |-> "stub", name |-> d.name, rank |-> rank_name, url |-> d.url,
     description |-> NoKey, fn |-> function_name]

\* SetupTry without the solution_file_path.exists() test: the stub is
\* written on every call
SetupTryOverwrite(d, origin, fs, ex) ==
    IF "rank" \in d.keys /\ d.rankNull THEN Outcome("AttributeError", NoMsg, history, ex)
    ELSE IF "name" \notin d.keys THEN Outcome("KeyError", NoMsg, history, ex)
    ELSE
      LET rank_name == RankTag(d)
          folder == FolderName(rank_name, sanitize_folder_name(d.name))
          function_name == generate_function_name(d.name)
          ex1 == [ex EXCEPT ![folder].dir = TRUE]
          ex2 == [ex1 EXCEPT ![folder].readme = ReadmeFile(d, rank_name)]
          ex3 == [ex2 EXCEPT ![folder].solution = StubFile(d, rank_name, function_name)]
      IN IF ~ex[folder].dir /\ fs.mkdir = "fail" THEN Outcome("OSError", NoMsg, history, ex)
         ELSE IF "url" \notin d.keys \/ "description" \notin d.keys
         THEN Outcome("KeyError", NoMsg, history, ex1)
         ELSE IF fs.readme = "fail" THEN Outcome("OSError", NoMsg, history, ex1)
         ELSE IF fs.solution = "fail" THEN Outcome("OSError", NoMsg, history, ex2)
         ELSE Outcome("none", Msg("EJERCICIO LISTO", origin, 0, 0), history, ex3)

\* the try block of setup_exercise_environment; fs gives the outcome of
\* mkdir and of the two writes
SetupTry(d, origin, fs, ex) ==
    IF "rank" \in d.keys /\ d.rankNull THEN Outcome("AttributeError", NoMsg, history, ex)
    ELSE IF "name" \notin d.keys THEN Outcome("KeyError", NoMsg, history, ex)
    ELSE
      LET rank_name == RankTag(d)
          folder == FolderName(rank_name, sanitize_folder_name(d.name))
          function_name == generate_function_name(d.name)
          ex1 == [ex EXCEPT ![folder].dir = TRUE]
          ex2 == [ex1 EXCEPT ![folder].readme = ReadmeFile(d, rank_name)]
          ex3 == [ex2 EXCEPT ![folder].solution = StubFile(d, rank_name, function_name)]
      IN IF ~ex[folder].dir /\ fs.mkdir = "fail" THEN Outcome("OSError", NoMsg, history, ex)
         ELSE IF "url" \notin d.keys \/ "description" \notin d.keys
         THEN Outcome("KeyError", NoMsg, history, ex1)
         ELSE IF fs.readme = "fail" THEN Outcome("OSError", NoMsg, history, ex1)
         ELSE IF ex2[folder].solution.kind # "none"
         THEN Outcome("none", Msg("EJERCICIO LISTO", origin, 0, 0), history, ex2)
         ELSE IF fs.solution = "fail" THEN Outcome("OSError", NoMsg, history, ex2)
         ELSE Outcome("none", Msg("EJERCICIO LISTO", origin, 0, 0), history, ex3)

\* main.py setup_exercise_environment
setup_exercise_environment(d, origin, fs, ex) ==
    LET Handlers(try) ==
            IF try.exc = "none" THEN try
            ELSE IF Catches("KeyError", try.exc)
            THEN Outcome("none", Msg("Falta campo requerido en kata_details", try.exc, 0, 0),
                         try.hist, try.ex)
            ELSE IF Catches("OSError", try.exc)
            THEN Outcome("none", Msg("Error al crear archivos del ejercicio", try.exc, 0, 0),
                         try.hist, try.ex)
            ELSE IF Catches("Exception", try.exc)
            THEN Outcome("none", Msg("Error inesperado al configurar ejercicio", try.exc, 0, 0),
                         try.hist, try.ex)
            ELSE try
    IN Handlers(SetupTry(d, origin, fs, ex))

\* the outcomes of mkdir and of the two writes: the call fails at most once,
\* since the first OSError ends it
FsTriples ==
    {t \in [mkdir : FsOutcomes, readme : FsOutcomes, solution : FsOutcomes] :
        Cardinality({k \in {"mkdir", "readme", "solution"} : t[k] = "fail"}) <= 1}
FsAllOk == [mkdir |-> "ok", readme |-> "ok", solution |-> "ok"]

(***************************************************************************)
(* import_kata                                                             *)
(***************************************************************************)
\* length of a kata id in the pattern [a-f0-9]{24}
HexIdLen == 24
HexChars == {"a", "b", "c", "d", "e", "f",
             "0", "1", "2", "3", "4", "5", "6", "7", "8", "9"}
KataSlash == <<"k", "a", "t", "a", "/">>

\* length of the longest run of [a-f0-9] that starts at position i of s
RECURSIVE HexRun(_, _)
HexRun(s, i) == IF i <= Len(s) /\ s[i] \in HexChars THEN 1 + HexRun(s, i + 1) ELSE 0

\* the pattern kata/([a-f0-9]+)|([a-f0-9]{24}) tried at position i: the
\* group that matched, or <<>> when neither alternative matches there
MatchAt(s, i) ==
    IF i + 4 <= Len(s) /\ SubSeq(s, i, i + 4) = KataSlash /\ HexRun(s, i + 5) >= 1
    THEN SubSeq(s, i + 5, i + 4 + HexRun(s, i + 5))
    ELSE IF HexRun(s, i) >= HexIdLen THEN SubSeq(s, i, i + HexIdLen - 1)
    ELSE <<>>

\* re.search(...): the leftmost position with a match, and
\* group(1) or group(2) if there is one, else url_or_id.strip()
ExtractKataId(url_or_id) ==
    LET hits == {i \in 1..Len(url_or_id) : MatchAt(url_or_id, i) # <<>>}
    IN IF hits = {} THEN Strip(url_or_id)
       ELSE MatchAt(url_or_id, CHOOSE i \in hits : \A j \in hits : i <= j)

\* the try block of import_kata
ImportTry(url_or_id, net, body, fs) ==
    LET Body(kata_id, kata_details) ==
            IF kata_details.exc # "none"
            THEN WithFetch(Outcome(kata_details.exc, NoMsg, history, exercises), 1, kata_id)
            ELSE IF StrInDict("error", kata_details.val)
            THEN WithFetch(Outcome("none", Msg("No pude encontrar el ejercicio", NoKey, 0, 0),
                                   history, exercises), 1, kata_id)
            ELSE WithFetch(setup_exercise_environment(kata_details.val, "Importación Manual",
                                                      fs, exercises), 1, kata_id)
        Fetch(kata_id) == Body(kata_id, fetch_kata_details(kata_id, net, body))
    IN Fetch(ExtractKataId(url_or_id))

\* main.py import_kata
import_kata(url_or_id, net, body, fs) ==
    LET Handlers(try) ==
            IF try.exc = "none" THEN try
            ELSE IF Catches("Exception", try.exc)
            THEN Outcome("none", Msg("Error al importar", try.exc, 0, 0), try.hist, try.ex)
            ELSE try
    IN Handlers(ImportTry(url_or_id, net, body, fs))

(***************************************************************************)
(* practice_python                                                         *)
(***************************************************************************)
\* what practice_python has done when it returns or reaches random.choice:
\* the outcome so far, whether it goes on to select (go), the completed-id
\* set, whether the index was filtered with it, and the candidates
Stage(o, go, completed, filtered, available) ==
    [o |-> o, go |-> go, completed |-> completed, filtered |-> filtered,
     available |-> available]
Stop(o) == Stage(o, FALSE, {}, FALSE, <<>>)

\* the inner try block: json.loads(HISTORY_PATH.read_text()) and the set
\* comprehension over kata["id"]
CachedTry(hist) ==
    IF hist.st = "corrupt" THEN [exc |-> "JSONDecodeError", ids |-> {}]
    ELSE IF ~AllHaveId(hist.items) THEN [exc |-> "KeyError", ids |-> {}]
    ELSE [exc |-> "none", ids |-> SeqToSet(IdList(hist.items))]

\* the comprehension without its condition
AvailableKatasUnfiltered(items, completed) == items

\* [kata for kata in full_kata_index if kata["id"] not in completed_kata_ids]
AvailableKatas(items, completed) ==
    SelectSeq(items, LAMBDA kata : kata.id \notin completed)

\* SelectStage testing the index instead of the candidates for emptiness:
\* random.choice then raises IndexError on an empty candidate list
SelectStageIndexTest(hist, completed, reqs) ==
    IF index.st = "absent"
    THEN Stop(WithReqs(Outcome("none", Msg("No encuentro data/katas_index.json", NoKey, 0, 0),
                               hist, exercises), reqs))
    ELSE IF index.st = "corrupt"
    THEN Stop(WithReqs(Outcome("none", Msg("Error al leer índice de katas", "JSONDecodeError", 0, 0),
                               hist, exercises), reqs))
    ELSE IF \E i \in DOMAIN index.items : "id" \notin index.items[i].keys
    THEN Stop(WithReqs(Outcome("KeyError", NoMsg, hist, exercises), reqs))
    ELSE
      LET available_katas == AvailableKatas(index.items, completed)
      IN IF index.items = <<>>
         THEN Stage(WithReqs(Outcome("none", Msg("Has completado todos", NoKey, 0, 0),
                                     hist, exercises), reqs),
                    FALSE, completed, TRUE, available_katas)
         ELSE IF available_katas = <<>>
         THEN Stage(WithReqs(Outcome("IndexError", NoMsg, hist, exercises), reqs),
                    FALSE, completed, TRUE, available_katas)
         ELSE Stage(WithReqs(Outcome("none", NoMsg, hist, exercises), reqs),
                    TRUE, completed, TRUE, available_katas)

\* practice_python from the index check to the empty-candidates return
SelectStage(hist, completed, reqs) ==
    IF index.st = "absent"
    THEN Stop(WithReqs(Outcome("none", Msg("No encuentro data/katas_index.json", NoKey, 0, 0),
                               hist, exercises), reqs))
    ELSE IF index.st = "corrupt"
    THEN Stop(WithReqs(Outcome("none", Msg("Error al leer índice de katas", "JSONDecodeError", 0, 0),
                               hist, exercises), reqs))
    ELSE IF \E i \in DOMAIN index.items : "id" \notin index.items[i].keys
    THEN Stop(WithReqs(Outcome("KeyError", NoMsg, hist, exercises), reqs))
    ELSE
      LET available_katas == AvailableKatas(index.items, completed)
      IN IF available_katas = <<>>
         THEN Stage(WithReqs(Outcome("none", Msg("Has completado todos", NoKey, 0, 0),
                                     hist, exercises), reqs),
                    FALSE, completed, TRUE, available_katas)
         ELSE Stage(WithReqs(Outcome("none", NoMsg, hist, exercises), reqs),
                    TRUE, completed, TRUE, available_katas)

\* practice_python from its first statement to random.choice
PracticeSelect(net, data, fsHist) ==
    LET cfg == load_config(config)
        username == GetUsername(cfg.val)
        Cached(synced, cached) ==
            IF cached.exc = "none" THEN SelectStage(synced.hist, cached.ids, 1)
            ELSE IF Catches("JSONDecodeError", cached.exc) \/ Catches("KeyError", cached.exc)
            THEN Stop(WithReqs(Outcome("none",
                                       Msg("Error al leer historial cacheado", cached.exc, 0, 0),
                                       synced.hist, exercises), 1))
            ELSE Stop(WithReqs(Outcome(cached.exc, NoMsg, synced.hist, exercises), 1))
        Synced(synced) ==
            IF synced.exc # "none"
            THEN Stop(WithReqs(Outcome(synced.exc, NoMsg, synced.hist, exercises), 1))
            ELSE IF SeqToSet(synced.ids) = {} /\ synced.hist.st # "absent"
            THEN Cached(synced, CachedTry(synced.hist))
            ELSE SelectStage(synced.hist, SeqToSet(synced.ids), 1)
    IN IF cfg.exc # "none" THEN Stop(Outcome(cfg.exc, NoMsg, history, exercises))
       ELSE IF ~Truthy(cfg.val)
       THEN Stop(Outcome("none", Msg("No se encontró configuración", NoKey, 0, 0),
                         history, exercises))
       ELSE IF username = ""
       THEN Stop(Outcome("none", Msg("No se encontró username en la configuración", NoKey, 0, 0),
                         history, exercises))
       ELSE Synced(sync_history_internal(username, net, data, fsHist, history))

\* PracticeFetch requesting the details a second time when the first request
\* returned an error
PracticeFetchRetry(stage, pick, dnet, body, fs) ==
    LET selected_kata_index == stage.available[pick]
        id == selected_kata_index.id
        reqs == stage.o.reqs + 1
        Made(made) == WithFetch([made EXCEPT !.hist = stage.o.hist], reqs, id)
        Again(o) == [o EXCEPT !.reqs = reqs + 1, !.fetched = <<id, id>>]
        Body(kata_details) ==
            IF kata_details.exc # "none"
            THEN WithFetch(Outcome(kata_details.exc, NoMsg, stage.o.hist, exercises), reqs, id)
            ELSE IF StrInDict("error", kata_details.val)
            THEN (IF "name" \notin selected_kata_index.keys
                  THEN WithFetch(Outcome("KeyError", NoMsg, stage.o.hist, exercises), reqs, id)
                  ELSE Again(Outcome("none",
                                     Msg("Hubo un error descargando el contenido del ejercicio",
                                         kata_details.val.error, 0, id),
                                     stage.o.hist, exercises)))
            ELSE Made(setup_exercise_environment(kata_details.val, "Recomendación Automática",
                                                 fs, exercises))
    IN Body(fetch_kata_details(id, dnet, body))

\* practice_python from random.choice (which picks position pick) on
PracticeFetch(stage, pick, dnet, body, fs) ==
    LET selected_kata_index == stage.available[pick]
        id == selected_kata_index.id
        reqs == stage.o.reqs + 1
        Made(made) == WithFetch([made EXCEPT !.hist = stage.o.hist], reqs, id)
        Body(kata_details) ==
            IF kata_details.exc # "none"
            THEN WithFetch(Outcome(kata_details.exc, NoMsg, stage.o.hist, exercises), reqs, id)
            ELSE IF StrInDict("error", kata_details.val)
            THEN (IF "name" \notin selected_kata_index.keys
                  THEN WithFetch(Outcome("KeyError", NoMsg, stage.o.hist, exercises), reqs, id)
                  ELSE WithFetch(Outcome("none",
                                         Msg("Hubo un error descargando el contenido del ejercicio",
                                             kata_details.val.error, 0, id),
                                         stage.o.hist, exercises), reqs, id))
            ELSE Made(setup_exercise_environment(kata_details.val, "Recomendación Automática",
                                                 fs, exercises))
    IN Body(fetch_kata_details(id, dnet, body))

\* the try block of practice_python
PracticeTry(net, data, fsHist, pick, dnet, body, fs) ==
    LET Rest(stage) == IF stage.go THEN PracticeFetch(stage, pick, dnet, body, fs) ELSE stage.o
    IN Rest(PracticeSelect(net, data, fsHist))

\* practice_python without its last handler, except Exception
practice_python_no_catch_all(net, data, fsHist, pick, dnet, body, fs) ==
    LET Handlers(try) ==
            IF try.exc = "none" THEN try
            ELSE IF Catches("KeyError", try.exc)
            THEN [try EXCEPT !.exc = "none",
                             !.msg = Msg("Falta campo requerido en los datos", try.exc, 0, 0)]
            ELSE try
    IN Handlers(PracticeTry(net, data, fsHist, pick, dnet, body, fs))

\* main.py practice_python
practice_python(net, data, fsHist, pick, dnet, body, fs) ==
    LET Handlers(try) ==
            IF try.exc = "none" THEN try
            ELSE IF Catches("KeyError", try.exc)
            THEN [try EXCEPT !.exc = "none",
                             !.msg = Msg("Falta campo requerido en los datos", try.exc, 0, 0)]
            ELSE IF Catches("Exception", try.exc)
            THEN [try EXCEPT !.exc = "none",
                             !.msg = Msg("Error inesperado en practice_python", try.exc, 0, 0)]
            ELSE try
    IN Handlers(PracticeTry(net, data, fsHist, pick, dnet, body, fs))

(***************************************************************************)
(* Actions: one per tool invocation, one for the user's work on a stub,    *)
(* and one per direct call of a client operation.                          *)
(***************************************************************************)
\* no request was issued
NoNet == Net("none", 0, "nocall")

\* the record of an invocation: the tool, the exception that escaped it or
\* the message it returned, the requests it issued and the identifiers it
\* requested details for, what the network and the filesystem did during the
\* sync (s) and during the details fetch and materialization (d), the list
\* the client returned for the completed-list request, the completed-id set
\* and whether the index was filtered with it, and the kata random.choice
\* selected; input is the argument of import_kata
Record(op, o, s, got, completed, filtered, selected, d) ==
    [op |-> op, exc |-> o.exc, msg |-> o.msg, reqs |-> o.reqs, fetched |-> o.fetched,
     s |-> s, got |-> got, completed |-> completed, filtered |-> filtered,
     selected |-> selected, d |-> d, input |-> <<>>]

\* a kata path, as import_kata receives it
KataPath == KataSlash \o <<"5", "b">>

Usernames == {"", "u"}

\* what the network and the filesystem do during one sync: a failed request,
\* or page 0 and the outcome of writing the snapshot
SyncInputs ==
    {[net |-> n, ids |-> <<>>, fs |-> "ok"] : n \in NetOutcomesCompleted \ {NetOk}}
    \cup {[net |-> NetOk, ids |-> l, fs |-> f] : l \in CompletedLists, f \in FsOutcomes}
\* a sync that fetches an empty page 0 and stores it
SyncEmpty == {[net |-> NetOk, ids |-> <<>>, fs |-> "ok"]}

\* what the network and the filesystem do during one details fetch and the
\* materialization that follows it, for response bodies in bodies and
\* filesystem outcomes in fss
DetailInputsOver(bodies, fss) ==
    {[net |-> n, body |-> ProfileDict, fs |-> FsAllOk] : n \in NetOutcomes \ {NetOk}}
    \cup {[net |-> NetOk, body |-> b, fs |-> f] : b \in bodies, f \in fss}
DetailInputs == DetailInputsOver(DetailsSet, FsTriples)
\* the same with one complete body, one body lacking a key and one with a
\* null rank name, and a filesystem on which only mkdir can fail
DetailInputsFew ==
    DetailInputsOver({Dict(DetailKeys, T1, FALSE, "d1"),
                      Dict(DetailKeys \ {"description"}, T1, FALSE, "d1"),
                      Dict(DetailKeys, T1, TRUE, "d1")},
                     {FsAllOk, [FsAllOk EXCEPT !.mkdir = "fail"]})
\* no sync, no details fetch
NoSyncInput == [net |-> NoNet, ids |-> <<>>, fs |-> "ok"]
NoDetailInput == [net |-> NoNet, body |-> ProfileDict, fs |-> FsAllOk]
Idle(op) ==
    Record(op, Outcome("none", NoMsg, Absent, <<>>), NoSyncInput, <<>>, {}, FALSE, 0,
           NoDetailInput)

ConfigUser == ConfigDict({"codewars_username"}, "u")
IndexFull == Json([i \in 1..NumIds |-> IndexEntry({"id", "name"}, i)])
NoCall == [fn |-> "none", net |-> NoNet, res |-> Ret(<<>>)]

\* setup.py configure_user: max_attempts
max_attempts == 3
\* configure_user before its first prompt: pc is the prompt it waits at
\* ("input", "retry") or "done"; username and net are the name entered last
\* and what the network did on its validation; event is what the last step
\* did; failures counts the validations that failed without a retry prompt;
\* result is the value returned (<<>> stands for None)
WizardStart ==
    [pc |-> "input", attempt |-> 0, username |-> <<>>, net |-> NoNet, event |-> "start",
     failures |-> 0, result |-> <<>>]

\* the installation before the first invocation: at most one of the three
\* documents is missing or damaged
Init ==
    /\ \/ config \in ConfigStates /\ index = IndexFull /\ history = Absent
       \/ config = ConfigUser /\ index \in IndexStates /\ history = Absent
       \/ config = ConfigUser /\ index = IndexFull /\ history = Corrupt
    /\ exercises = [f \in Folders |-> NoFolder]
    /\ last = Idle("none")
    /\ call = NoCall
    /\ wizard = WizardStart

\* update_progress storing the username it was given in config.json
UpdateWithSavedUsername(syncs) ==
    \E username \in Usernames, s \in syncs :
        \E o \in {update_progress(username, s.net, ItemsOf(s.ids), s.fs)} :
           /\ history' = o.hist
           /\ exercises' = o.ex
           /\ last' = Record("update_progress", o,
                             IF o.reqs > 0 THEN s ELSE NoSyncInput,
                             IF o.reqs > 0
                             THEN fetch_user_completed(username, s.net, ItemsOf(s.ids)).val
                             ELSE <<>>,
                             {}, FALSE, 0, NoDetailInput)
           /\ config' = IF username # "" /\ o.msg.tpl = "Sincronización exitosa"
                        THEN ConfigDict({"codewars_username"}, username) ELSE config
           /\ UNCHANGED <<index, call, wizard>>

UpdateWith(syncs) ==
    \E username \in Usernames, s \in syncs :
        \E o \in {update_progress(username, s.net, ItemsOf(s.ids), s.fs)} :
           /\ history' = o.hist
           /\ exercises' = o.ex
           /\ last' = Record("update_progress", o,
                             IF o.reqs > 0 THEN s ELSE NoSyncInput,
                             IF o.reqs > 0
                             THEN fetch_user_completed(username, s.net, ItemsOf(s.ids)).val
                             ELSE <<>>,
                             {}, FALSE, 0, NoDetailInput)
           /\ UNCHANGED <<config, index, call, wizard>>

ImportWith(inputs, details) ==
    \E url_or_id \in inputs, d \in details :
        \E o \in {import_kata(url_or_id, d.net, d.body, d.fs)} :
           /\ history' = o.hist
           /\ exercises' = o.ex
           /\ last' = [Record("import_kata", o, NoSyncInput, <<>>, {}, FALSE, 0, d)
                          EXCEPT !.input = url_or_id]
           /\ UNCHANGED <<config, index, call, wizard>>

PracticeWith(syncs, details) ==
    \E s \in syncs :
        \E stage \in {PracticeSelect(s.net, ItemsOf(s.ids), s.fs)} :
            \E pick \in (IF stage.go THEN 1..Len(stage.available) ELSE {1}),
               d \in (IF stage.go THEN details ELSE {NoDetailInput}) :
                \E o \in {practice_python(s.net, ItemsOf(s.ids), s.fs, pick,
                                          d.net, d.body, d.fs)} :
                   /\ history' = o.hist
                   /\ exercises' = o.ex
                   /\ last' = Record("practice_python", o,
                                     IF stage.o.reqs > 0 THEN s ELSE NoSyncInput,
                                     IF stage.o.reqs > 0
                                     THEN fetch_user_completed("u", s.net, ItemsOf(s.ids)).val
                                     ELSE <<>>,
                                     stage.completed, stage.filtered,
                                     IF stage.go THEN stage.available[pick].id ELSE 0,
                                     d)
                   /\ UNCHANGED <<config, index, call, wizard>>

\* the tools as the host invokes them
UpdateProgress == UpdateWith(SyncInputs)
ImportKata == ImportWith({KataPath}, DetailInputsFew)
PracticePython == PracticeWith(SyncInputs, DetailInputsFew)

\* the user works on the stub of an exercise
UserEditsSolution ==
    \E f \in Folders :
        /\ exercises[f].solution.kind = "stub"
        /\ exercises' = [exercises EXCEPT ![f].solution = UserFile]
        /\ last' = Idle("user")
        /\ UNCHANGED <<config, index, history, call, wizard>>

Next == UpdateProgress \/ ImportKata \/ PracticePython \/ UserEditsSolution

Spec == Init /\ [][Next]_vars

\* the materializer under every details body and filesystem outcome, on an
\* installation that is set up and whose sync finds nothing completed
InitMaterializer ==
    /\ config = ConfigUser
    /\ index = Json(<<IndexEntry({"id", "name"}, 1)>>)
    /\ history = Absent
    /\ exercises = [f \in Folders |-> NoFolder]
    /\ last = Idle("none")
    /\ call = NoCall
    /\ wizard = WizardStart

MaterializeByImport == ImportWith({KataPath}, DetailInputs)
MaterializeByPractice == PracticeWith(SyncEmpty, DetailInputs)

NextMaterializer == MaterializeByImport \/ MaterializeByPractice \/ UserEditsSolution

SpecMaterializer == InitMaterializer /\ [][NextMaterializer]_vars

\* direct calls of the three client operations
CallFetchUser ==
    \E net \in NetOutcomes :
        /\ call' = [fn |-> "fetch_codewars_user", net |-> net,
                    res |-> fetch_codewars_user("u", net, ProfileDict)]
        /\ UNCHANGED <<config, index, history, exercises, last, wizard>>

CallFetchCompleted ==
    \E net \in NetOutcomesCompleted, ids \in CompletedLists :
        /\ call' = [fn |-> "fetch_user_completed", net |-> net,
                    res |-> fetch_user_completed("u", net, ItemsOf(ids))]
        /\ UNCHANGED <<config, index, history, exercises, last, wizard>>

CallFetchDetails ==
    \E net \in NetOutcomes, body \in DetailsSet :
        /\ call' = [fn |-> "fetch_kata_details", net |-> net,
                    res |-> fetch_kata_details(<<"a">>, net, body)]
        /\ UNCHANGED <<config, index, history, exercises, last, wizard>>

NextClient == CallFetchUser \/ CallFetchCompleted \/ CallFetchDetails

SpecClient == Init /\ [][NextClient]_vars

\* a 24-character kata id
HexId == [i \in 1..HexIdLen |-> IF i % 2 = 1 THEN "5" ELSE "b"]
\* arguments of import_kata: a kata path and a URL with a hex id, a URL and
\* a bare name with a slug, a padded slug, a bare id, an id inside a longer
\* word and a hex string one character longer than an id
ImportInputs ==
    {KataPath,
     <<"x", "/">> \o KataPath \o <<"/", "t">>,
     KataSlash \o <<"b", "e", "-", "s">>,
     <<"b", "e", "-", "s">>,
     <<" ", "b", "e", "-", "s", " ">>,
     HexId,
     <<"x">> \o HexId,
     HexId \o <<"5">>}

\* import_kata on every kind of argument
ImportAny == ImportWith(ImportInputs, DetailInputsFew)

NextImport == ImportAny \/ UserEditsSolution

SpecImport == InitMaterializer /\ [][NextImport]_vars

\* exercise titles: the strings of at most MaxTitleLen characters over a
\* lowercase letter, an uppercase letter, a digit, the three characters the
\* slug retains besides alphanumerics, a character it drops and a non-ASCII letter
TitleChars == {"a", "B", "1", " ", "-", "_", "!", "é"}
TitleInputs == UNION {[1..n -> TitleChars] : n \in 0..MaxTitleLen}

\* a title is at hand and no function was called on it yet
InitNaming ==
    /\ config = ConfigUser
    /\ index = IndexFull
    /\ history = Absent
    /\ exercises = [f \in Folders |-> NoFolder]
    /\ last = Idle("none")
    /\ call \in {[fn |-> "none", net |-> NoNet, arg |-> title, res |-> Ret(<<>>)] :
                    title \in TitleInputs}
    /\ wizard = WizardStart

\* direct calls of the two naming functions on the title at hand
CallSanitizeFolderName ==
    /\ call' = [fn |-> "sanitize_folder_name", net |-> NoNet, arg |-> call.arg,
                res |-> Ret(sanitize_folder_name(call.arg))]
    /\ UNCHANGED <<config, index, history, exercises, last, wizard>>

CallGenerateFunctionName ==
    /\ call' = [fn |-> "generate_function_name", net |-> NoNet, arg |-> call.arg,
                res |-> Ret(generate_function_name(call.arg))]
    /\ UNCHANGED <<config, index, history, exercises, last, wizard>>

NextNaming == CallSanitizeFolderName \/ CallGenerateFunctionName

SpecNaming == InitNaming /\ [][NextNaming]_vars

\* the word configure_user looks for in an error text
Conexion == <<"c", "o", "n", "e", "x", "i", "ó", "n">>
\* the usernames typed at the prompt, stripped: nothing, a plain name, and a
\* name that holds the word
WizardNames == {<<>>, <<"u">>, <<"l", "a">> \o Conexion}
\* the answers typed at the retry prompt
RetryAnswers == {"s", "n", "N"}

\* sub in s, for strings
Contains(s, sub) ==
    \E i \in 1..(Len(s) - Len(sub) + 1) : SubSeq(s, i, i + Len(sub) - 1) = sub

\* "conexión" in user_data["error"].lower(): the connection-error text holds
\* the word twice; the not-found and the timeout text embed the username;
\* the other two texts hold the word only if the response body or the
\* exception message does, which no outcome drawn here has
ErrorMentionsConexion(username, user_data) ==
    \/ user_data.error = "Error de conexión. Verifica tu conexión a internet."
    \/ /\ user_data.error \in {"El usuario no existe en CodeWars.",
                                "Timeout al conectar con CodeWars API. Intenta nuevamente."}
       /\ Contains(LowerStr(username), Conexion)

\* one pass of the while loop of configure_user, from the username prompt
\* to the next prompt or the return
WizardAsksUsername ==
    /\ wizard.pc = "input"
    /\ wizard.attempt < max_attempts
    /\ \E username \in WizardNames, net \in NetOutcomes :
         \E user_data \in {fetch_codewars_user(username, net, ProfileDict)} :
           wizard' =
             IF username = <<>>
             THEN [wizard EXCEPT !.username = <<>>, !.net = NoNet, !.event = "empty"]
             ELSE IF user_data.exc # "none"
             THEN [wizard EXCEPT !.pc = "raised", !.attempt = @ + 1, !.username = username,
                                 !.net = net, !.event = user_data.exc]
             ELSE IF StrInDict("error", user_data.val)
             THEN (IF ErrorMentionsConexion(username, user_data.val)
                   THEN [wizard EXCEPT !.pc = "retry", !.attempt = @ + 1,
                                       !.username = username, !.net = net,
                                       !.event = "retry_prompt"]
                   ELSE IF wizard.attempt + 1 < max_attempts
                   THEN [wizard EXCEPT !.attempt = @ + 1, !.username = username, !.net = net,
                                       !.event = "failed", !.failures = @ + 1]
                   ELSE [wizard EXCEPT !.pc = "done", !.attempt = @ + 1,
                                       !.username = username, !.net = net,
                                       !.event = "exhausted", !.failures = @ + 1])
             ELSE [wizard EXCEPT !.pc = "done", !.attempt = @ + 1, !.username = username,
                                 !.net = net, !.event = "validated", !.result = username]
    /\ UNCHANGED <<config, index, history, exercises, last, call>>

\* the answer to the retry prompt: anything but s or S returns None
WizardAnswersRetry ==
    /\ wizard.pc = "retry"
    /\ \E retry \in RetryAnswers :
         wizard' = IF LowerChar(retry) # "s"
                   THEN [wizard EXCEPT !.pc = "done", !.event = "declined"]
                   ELSE [wizard EXCEPT !.pc = "input", !.attempt = @ - 1, !.event = "retried"]
    /\ UNCHANGED <<config, index, history, exercises, last, call>>

NextWizard == WizardAsksUsername \/ WizardAnswersRetry

\* the wizard runs on any installation: before the first setup, or again later
SpecWizard == Init /\ [][NextWizard]_vars

(***************************************************************************)
(* Properties                                                              *)
(***************************************************************************)
IndexIds == {index.items[i].id : i \in DOMAIN index.items}
\* the index file parses and every entry has an id and a name
IndexValid ==
    index.st = "json" /\ \A i \in DOMAIN index.items : {"id", "name"} \subseteq index.items[i].keys
\* a snapshot that holds at least one record, each with an id
ValidSnapshot(h) == h.st = "json" /\ h.items # <<>> /\ AllHaveId(h.items)
SnapshotIds(h) == SeqToSet(IdList(h.items))
\* the invocation issued the completed-list request and it failed
FetchFailed(l) == l.s.net # NoNet /\ NetFailed(l.s.net)
\* the details request succeeds with a complete body and no write fails
DetailClean(d) == d.net = NetOk /\ DetailKeys \subseteq d.body.keys /\ ~d.body.rankNull /\ d.fs = FsAllOk
FolderOf(d) == FolderName(RankTag(d), sanitize_folder_name(d.name))
ToolOps == {"update_progress", "import_kata", "practice_python"}

\* C1: in practice_python, when the completed-list fetch fails and a snapshot
\* of records with ids was cached before the call, the index is filtered with
\* exactly the ids of that snapshot.
C1_CachedIdsUsedOnFetchFailure ==
    [][(/\ last'.op = "practice_python"
        /\ FetchFailed(last')
        /\ ValidSnapshot(history)
        /\ IndexValid)
       => (last'.filtered /\ last'.completed = SnapshotIds(history))]_vars

\* C2: with config, username and index valid and a details fetch that would
\* succeed, a failing completed-list fetch (with or without a cached snapshot)
\* ends in the all-done message or a materialized exercise, never in an error.
C2_SyncFailureNeverAborts ==
    [][(/\ last'.op = "practice_python"
        /\ config = ConfigUser
        /\ IndexValid
        /\ FetchFailed(last')
        /\ (history.st = "absent" \/ ValidSnapshot(history))
        /\ (last'.d = NoDetailInput \/ DetailClean(last'.d)))
       => (/\ last'.exc = "none"
           /\ last'.msg.tpl \in {"Has completado todos", "EJERCICIO LISTO"})]_vars

\* C3: update_progress, when the completed-list fetch fails, returns the
\* failure message carrying the client's error text, not the success message.
C3_UpdateSurfacesFetchError ==
    (last.op = "update_progress" /\ FetchFailed(last))
    => (/\ last.msg.tpl = "Error conectando con CodeWars"
        /\ last.msg.text = last.got[1].error)

\* C4: an invocation of update_progress or practice_python whose
\* completed-list fetch failed leaves the history snapshot as it was.
C4_SnapshotKeptOnFetchFailure ==
    [][(last'.op \in {"update_progress", "practice_python"} /\ FetchFailed(last'))
       => history' = history]_vars

\* C5: a call of the materializer never changes a solution.py that exists
\* (user edits included), and after every successful call README.md of the
\* folder holds the title, rank, URL and description of that call's details.
C5_StubKeptReadmeRewritten ==
    [][last'.op \in {"import_kata", "practice_python"}
       => (/\ \A f \in Folders :
                exercises[f].solution.kind # "none"
                => exercises'[f].solution = exercises[f].solution
           /\ last'.msg.tpl = "EJERCICIO LISTO"
              => LET d == last'.d.body
                     readme == exercises'[FolderOf(d)].readme
                 IN /\ readme.kind = "readme"
                    /\ readme.name = d.name
                    /\ readme.rank = RankTag(d)
                    /\ readme.url = d.url
                    /\ readme.description = d.description)]_vars

\* a successful call on a folder whose stub the user had edited, with a
\* title other than the one in the stub's place before
C5_Witness ==
    /\ last.op \in {"import_kata", "practice_python"}
    /\ last.msg.tpl = "EJERCICIO LISTO"
    /\ exercises[FolderOf(last.d.body)].solution.kind = "user"
    /\ exercises[FolderOf(last.d.body)].readme.name = T2

\* C6: the kata practice_python fetches details for is the selected one, its
\* id is in the index and not in the completed-id set; when the completed set
\* covers all index ids but one, it is that one.
C6_SelectedIsUncompleted ==
    (last.op = "practice_python" /\ last.selected # 0)
    => (/\ last.fetched = <<last.selected>>
        /\ last.selected \in IndexIds
        /\ last.selected \notin last.completed
        /\ Cardinality(IndexIds \ last.completed) = 1
           => IndexIds \ last.completed = {last.selected})

C6_Witness ==
    /\ last.op = "practice_python"
    /\ last.selected # 0
    /\ last.completed # {}
    /\ Cardinality(IndexIds) >= 2
    /\ IndexIds \ last.completed = {last.selected}

\* C7: when every id of the index is in the completed-id set (an empty index
\* included), practice_python returns the all-done message, which is not an
\* error message, fetches no details and writes nothing under exercises/.
C7_AllDone ==
    [][(/\ last'.op = "practice_python"
        /\ last'.filtered
        /\ IndexIds \subseteq last'.completed)
       => (/\ last'.exc = "none"
           /\ last'.msg.tpl = "Has completado todos"
           /\ ~IsErrorMsg(last'.msg)
           /\ last'.fetched = <<>>
           /\ last'.reqs = 1
           /\ exercises' = exercises)]_vars

C7_Witness ==
    /\ last.op = "practice_python"
    /\ last.filtered
    /\ IndexIds # {}
    /\ IndexIds \subseteq last.completed
    /\ last.msg.tpl = "Has completado todos"

\* C8: with the config file absent, practice_python returns the message that
\* tells the user to run setup, issues no request, and writes nothing under
\* exercises/ nor to the history snapshot.
C8_NoConfigNoEffect ==
    [][(config.st = "absent" /\ last'.op = "practice_python")
       => (/\ last'.exc = "none"
           /\ last'.msg.tpl = "No se encontró configuración"
           /\ last'.reqs = 0
           /\ exercises' = exercises
           /\ history' = history)]_vars

C8_Witness ==
    /\ config.st = "absent"
    /\ last.op = "practice_python"
    /\ last.msg.tpl = "No se encontró configuración"
    /\ history.st = "json"
    /\ \E f \in Folders : exercises[f].dir

\* C9: no exception escapes a tool: update_progress, import_kata and
\* practice_python always end by returning a message.
C9_NoExceptionEscapes ==
    last.op \in ToolOps => (last.exc = "none" /\ last.msg # NoMsg)

\* practice_python ended in its last handler, on the ValueError load_config raised
C9_Witness ==
    /\ last.op = "practice_python"
    /\ last.msg.tpl = "Error inesperado en practice_python"
    /\ last.msg.text = "ValueError"

\* the error text of the value a client operation returned, NoKey if it has none
ErrorTextOf(c) ==
    IF c.fn = "fetch_user_completed"
    THEN (IF Len(c.res.val) > 0 /\ "error" \in c.res.val[1].keys
          THEN c.res.val[1].error ELSE NoKey)
    ELSE (IF "error" \in c.res.val.keys THEN c.res.val.error ELSE NoKey)
NotFoundTexts ==
    {"El usuario no existe en CodeWars.", "Usuario no encontrado.", "Ejercicio no encontrado."}
TimeoutTexts ==
    {"Timeout al conectar con CodeWars API. Intenta nuevamente.",
     "Timeout al obtener katas completados. Intenta nuevamente.",
     "Timeout al obtener detalles del kata. Intenta nuevamente."}
HttpErrorTexts == {HttpErrorText(st) : st \in HttpStatuses}

\* C10: each client operation returns a value and never raises; a failed
\* request yields an error value; the one for a 404 is a not-found text, the
\* one for any other non-2xx status an HTTP-error text, the one for a timeout
\* a timeout text, and no text belongs to two of these kinds.
C10_ClientErrorValues ==
    call.fn # "none"
    => (/\ call.res.exc = "none"
        /\ NetFailed(call.net) => ErrorTextOf(call) # NoKey
        /\ (call.net.exc = "none" /\ call.net.status = 404)
           => ErrorTextOf(call) \in NotFoundTexts
        /\ (call.net.exc = "none" /\ call.net.status \notin {200, 404})
           => ErrorTextOf(call) \in HttpErrorTexts
        /\ call.net.exc = "TimeoutException" => ErrorTextOf(call) \in TimeoutTexts
        /\ NotFoundTexts \cap HttpErrorTexts = {}
        /\ NotFoundTexts \cap TimeoutTexts = {}
        /\ HttpErrorTexts \cap TimeoutTexts = {})

C10_Witness ==
    /\ call.fn = "fetch_user_completed"
    /\ call.net.status = 404
    /\ ErrorTextOf(call) = "Usuario no encontrado."

\* a lowercase letter or a digit, as str.isalnum() and str.islower() see it
IsLowerAlnum(c) == c \in AsciiLower \cup AsciiDigit \cup UniLower
\* the positions of a title whose character the slug retains and that hold no space
SolidPositions(title) ==
    {i \in 1..Len(title) : KeepFolderChar(title[i]) /\ title[i] # " "}
SetMin(S) == CHOOSE i \in S : \A j \in S : i <= j
SetMax(S) == CHOOSE i \in S : \A j \in S : i >= j

RECURSIVE TokensJoined(_, _, _)
TokensJoined(title, i, acc) ==
    IF i > Len(title) THEN acc
    ELSE IF IsAsciiAlnum(title[i])
    THEN TokensJoined(title, i + 1,
                      (IF acc # <<>> /\ ~IsAsciiAlnum(title[i - 1]) THEN acc \o <<"_">> ELSE acc)
                      \o <<LowerChar(title[i])>>)
    ELSE TokensJoined(title, i + 1, acc)

\* C12: generate_function_name(title) is the lowercase alphanumeric tokens of
\* the title joined by underscores, with kata_ in front exactly when that
\* joined result starts with a digit.
C12_FunctionNamePrefix ==
    call.fn = "generate_function_name"
    => LET joined == TokensJoined(call.arg, 1, <<>>)
       IN call.res.val = (IF joined # <<>> /\ IsDigit(joined[1])
                          THEN KataPrefix \o joined ELSE joined)

\* a title whose first token starts with a digit after a dropped character
C12_Witness ==
    /\ call.fn = "generate_function_name"
    /\ call.arg = <<"!", "1", "B">>
    /\ call.res.val = KataPrefix \o <<"1", "b">>

\* C13: a practice_python invocation that reaches selection with candidates
\* issues exactly one details request (its second request), for the selected
\* id; if that request fails, it returns the error message that names the
\* selected item (index entries hold id and name) and carries the client's
\* error text, and leaves everything under exercises/ as it was.
C13_OneFetchNoFallback ==
    [][(last'.op = "practice_python" /\ last'.selected # 0)
       => (/\ last'.fetched = <<last'.selected>>
           /\ last'.reqs = 2
           /\ NetFailed(last'.d.net)
              => /\ exercises' = exercises
                 /\ IndexValid
                    => /\ last'.exc = "none"
                       /\ last'.msg.tpl = "Hubo un error descargando el contenido del ejercicio"
                       /\ last'.msg.item = last'.selected
                       /\ last'.msg.text # NoKey)]_vars

\* the details request failed while another candidate was available and an
\* exercise folder already existed
C13_Witness ==
    /\ last.op = "practice_python"
    /\ last.selected # 0
    /\ NetFailed(last.d.net)
    /\ last.msg.item = last.selected
    /\ Cardinality(IndexIds \ last.completed) >= 2
    /\ \E f \in Folders : exercises[f].dir

\* C14: in practice_python, whenever the completed-list request succeeds, the
\* set the index is filtered with is the set of ids of the records fetched,
\* also when writing the snapshot fails and when the list is empty.
C14_FreshIdsUsedOnFetchSuccess ==
    (/\ last.op = "practice_python"
     /\ last.filtered
     /\ last.s.net # NoNet
     /\ ~NetFailed(last.s.net))
    => last.completed = SeqToSet(last.s.ids)

\* a non-empty string of hex digits
IsHexStr(t) == t # <<>> /\ \A k \in DOMAIN t : t[k] \in HexChars
\* the path segment that follows "kata/" at position i: up to the next "/"
\* or the end of the string
SegmentAt(s, i) ==
    LET slashes == {j \in (i + 5)..Len(s) : s[j] = "/"}
    IN SubSeq(s, i + 5, IF slashes = {} THEN Len(s) ELSE SetMin(slashes) - 1)
\* the identifier the claim describes: the hex path segment after kata/ if
\* there is one; else the trimmed input, which is the bare id when the input
\* is one and the slug or URL unchanged otherwise
ClaimedKataId(s) ==
    LET hits == {i \in 1..(Len(s) - 4) :
                    SubSeq(s, i, i + 4) = KataSlash /\ IsHexStr(SegmentAt(s, i))}
    IN IF hits # {} THEN SegmentAt(s, SetMin(hits)) ELSE Strip(s)

\* C15: import_kata requests details for the hex identifier of a kata/<hex>
\* path segment if its input has one, else for the bare 24-character hex
\* string if the input is one, else for the trimmed input verbatim: a slug,
\* or a URL ending in a slug, is never cut down to a hex-looking prefix.
C15_ImportIdentifier ==
    last.op = "import_kata" => last.fetched = <<ClaimedKataId(last.input)>>

\* C16: no invocation of update_progress, import_kata or practice_python
\* creates, modifies or deletes config.json or katas_index.json; of the three
\* JSON documents only user_history.json is ever written by a tool.
C16_ConfigIndexReadOnly ==
    [][last'.op \in ToolOps => (config' = config /\ index' = index)]_vars

\* update_progress("u") stored a snapshot on an installation without
\* config.json, and the file is still absent
C16_Witness ==
    /\ last.op = "update_progress"
    /\ last.msg.tpl = "Sincronización exitosa"
    /\ history.st = "json"
    /\ config.st = "absent"
    /\ index = IndexFull

\* C17: configure_user offers the retry prompt only after a profile fetch
\* that failed with a connection failure; it returns no username as soon as
\* max_attempts validations have failed with another error; empty inputs and
\* retried connection failures do not count, so it ends only with a
\* validated username, a declined retry or the third counted failure.
C17_RetryOnlyOnConnectionFailure ==
    /\ wizard.pc \in {"input", "retry", "done"}
    /\ wizard.pc = "retry" => wizard.net.exc = "ConnectError"
    /\ wizard.failures = max_attempts <=> wizard.event = "exhausted"
    /\ wizard.pc = "input" => wizard.attempt = wizard.failures
    /\ wizard.pc = "done" => wizard.event \in {"validated", "declined", "exhausted"}
    /\ (wizard.pc = "done" /\ wizard.event # "validated") => wizard.result = <<>>

\* the part of C17 that counts: every conjunct but the one on the retry prompt
WizardCounting ==
    /\ wizard.pc \in {"input", "retry", "done"}
    /\ wizard.failures = max_attempts <=> wizard.event = "exhausted"
    /\ wizard.pc = "input" => wizard.attempt = wizard.failures
    /\ wizard.pc = "done" => wizard.event \in {"validated", "declined", "exhausted"}
    /\ (wizard.pc = "done" /\ wizard.event # "validated") => wizard.result = <<>>

=============================================================================
